---- MODULE Spec2Model ----
(***************************************************************************)
(* Model of src/src/scope.rs: the Scope naming tree.                       *)
(*                                                                         *)
(* A Rust String is a sequence of one-character strings, so that           *)
(* format!("{}_{}", name, i) and format!("{}/{}", ..) are real             *)
(* concatenations.  Every Rc<RefCell<..>> is an index into a heap          *)
(* (graphs, nameSets, opMaps): two scopes share a registry exactly when    *)
(* they hold the same index.                                               *)
(***************************************************************************)
EXTENDS Integers, Sequences, FiniteSets, TLC

\* Bounds of the exploration.  Spec explores the operations on names;
\* SpecScopes explores the callers that only derive scopes, on larger trees;
\* SpecMints the operations on names on smaller trees with more mints;
\* SpecGraph the views of the graphs of several trees; SpecPaths the names
\* that hold the separator; SpecLoops the loops, iteration by iteration;
\* SpecJoin the function join.
MaxScopes == 3
MaxRoots == 1
MaxMints == 2
MaxTreeScopes == 5
MaxMintScopes == 2
MaxManyMints == 3
MaxGraphScopes == 3
MaxGraphRoots == 2
MaxViews == 2
MaxPathScopes == 4
MaxLoopCalls == 3

\* The strings callers pass: sub-scope names, op-name overrides and default
\* op names.  "a_1" is the string uniquification forms from "a".
SubNames == { <<>>, <<"a">>, <<"a", "_", "1">> }
OpNames == { <<>>, <<"a">>, <<"b">> }
DefaultNames == { <<>>, <<"a">>, <<"a", "_", "1">> }

\* The separators and the parts passed to join by the callers that call it
\* on its own.
Separators == { <<>>, <<"/">>, <<":", ":">> }
JoinParts == { <<>>, <<"a">>, <<"/">>, <<"a", "/", "b">>, <<"a", "_", "1">> }

\* The names passed by the callers whose loops are followed iteration by
\* iteration; the empty name enters no loop.
LoopNames == { <<"a">>, <<"a", "_", "1">> }

\* Sub-scope names of the callers that also pass the separator as a name.
PathNames == { <<>>, <<"a">>, <<"/">> }

VARIABLES
    scopes,    \* the Scope values created so far
    graphs,    \* heap of RefCell<Graph>: the borrow flag of each graph cell
    nameSets,  \* heap of RefCell<HashSet<String>> (children_names)
    opMaps,    \* heap of RefCell<HashMap<String, i32>> (op_names)
    subs,      \* the new_sub_scope calls made so far: receiver, argument
               \* and returned scope
    derived,   \* for each name set, the uniquify calls made on it, in order
    issued,    \* for each op map, the get_unique_name_for_op calls, in order
    views,     \* the graph views handed out and not yet dropped: how many
               \* each scope holds of each kind (TRUE the exclusive kind)
    panicked,  \* empty, or the one graph()/graph_mut() call that panicked
    call       \* empty, or the one call that is being followed step by step

vars == <<scopes, graphs, nameSets, opMaps, subs, derived, issued,
          views, panicked, call>>

----------------------------------------------------------------------------
\* Strings

Digit(d) == << <<"0">>, <<"1">>, <<"2">>, <<"3">>, <<"4">>,
               <<"5">>, <<"6">>, <<"7">>, <<"8">>, <<"9">> >>[d + 1]

\* Display of a non-negative integer, as "{}" formats it.
RECURSIVE Dec(_)
Dec(n) == IF n < 10 THEN Digit(n) ELSE Dec(n \div 10) \o Digit(n % 10)

\* format!("{}_{}", name, i)
Suffixed(name, i) == name \o <<"_">> \o Dec(i)

\* join putting the separator beside an empty part as well.
join_always_sep(sep, left, right) == left \o sep \o right

join(sep, left, right) ==
    IF left = <<>> THEN right
    ELSE IF right = <<>> THEN left
    ELSE left \o sep \o right

----------------------------------------------------------------------------
\* Registries

EmptyMap == [k \in {} |-> 0]

MapInsert(map, k, v) ==
    [x \in (DOMAIN map) \cup {k} |-> IF x = k THEN v ELSE map[x]]

\* The loop of uniquify with the counter incremented before its first use.
RECURSIVE UniquifyLoopLate(_, _, _)
UniquifyLoopLate(set, name, i) ==
    IF Suffixed(name, i + 1) \notin set
    THEN [name |-> Suffixed(name, i + 1),
          set |-> set \cup {Suffixed(name, i + 1)}]
    ELSE UniquifyLoopLate(set, name, i + 1)

\* The loop of uniquify, entered with counter i: the first name_i, i
\* counting upwards, whose insertion into the set succeeds.
RECURSIVE UniquifyLoop(_, _, _)
UniquifyLoop(set, name, i) ==
    IF Suffixed(name, i) \notin set
    THEN [name |-> Suffixed(name, i), set |-> set \cup {Suffixed(name, i)}]
    ELSE UniquifyLoop(set, name, i + 1)

\* uniquify without its loop: the first suffixed name is taken unchecked.
uniquifyNoLoop(set, name) ==
    IF name \notin set
    THEN [name |-> name, set |-> set \cup {name}]
    ELSE [name |-> Suffixed(name, 1), set |-> set \cup {Suffixed(name, 1)}]

\* uniquify taking the colliding name out of the set when it inserts the
\* suffixed one.
uniquify_replace(set, name) ==
    IF name \notin set
    THEN [name |-> name, set |-> set \cup {name}]
    ELSE LET r == UniquifyLoop(set, name, 1)
         IN  [name |-> r.name, set |-> r.set \ {name}]

\* uniquify on the set children_names refers to: the returned name and the
\* set afterwards.
uniquify(set, name) ==
    IF name \notin set
    THEN [name |-> name, set |-> set \cup {name}]
    ELSE UniquifyLoop(set, name, 1)

\* The mint loop returning its first suffixed candidate unchecked.
MintLoopNoRecheck(map, name, name_string) ==
    IF name_string \notin DOMAIN map
    THEN [key |-> name_string, map |-> MapInsert(map, name_string, 0)]
    ELSE [key |-> Suffixed(name, map[name_string] + 1),
          map |-> MapInsert([map EXCEPT ![name_string] = @ + 1],
                            Suffixed(name, map[name_string] + 1), 0)]

\* The mint loop inserting a new key with count 1.
RECURSIVE MintLoopCountFromOne(_, _, _)
MintLoopCountFromOne(map, name, name_string) ==
    IF name_string \notin DOMAIN map
    THEN [key |-> name_string, map |-> MapInsert(map, name_string, 1)]
    ELSE MintLoopCountFromOne([map EXCEPT ![name_string] = @ + 1], name,
                              Suffixed(name, map[name_string] + 1))

\* The mint loop building the next candidate from the count as it was
\* before the increment.
RECURSIVE MintLoopStaleCount(_, _, _)
MintLoopStaleCount(map, name, name_string) ==
    IF name_string \notin DOMAIN map
    THEN [key |-> name_string, map |-> MapInsert(map, name_string, 0)]
    ELSE MintLoopStaleCount([map EXCEPT ![name_string] = @ + 1], name,
                            Suffixed(name, map[name_string]))

\* The loop of get_unique_name_for_op on one map: name is the base,
\* name_string the current candidate.  The next candidate is built from the
\* count of the key just found occupied.  Counts are i32; they stay far
\* below 2^31 within the bounds on the number of mints.
RECURSIVE MintLoop(_, _, _)
MintLoop(map, name, name_string) ==
    IF name_string \notin DOMAIN map
    THEN [key |-> name_string, map |-> MapInsert(map, name_string, 0)]
    ELSE MintLoop([map EXCEPT ![name_string] = @ + 1], name,
                  Suffixed(name, map[name_string] + 1))

\* The base name with the default taking precedence over the override.
BaseNameDefaultFirst(s, default_name) ==
    IF default_name # <<>> THEN default_name ELSE s.op_name

\* The base name a scope mints from.
BaseName(s, default_name) ==
    IF s.op_name = <<>> THEN default_name ELSE s.op_name

\* get_unique_name_for_op building the full name with format!("{}/{}")
\* in place of join.
get_unique_name_for_op_format(s, default_name) ==
    LET r == MintLoop(opMaps[s.op_names], BaseName(s, default_name),
                      BaseName(s, default_name))
    IN  [key |-> r.key, map |-> r.map, full |-> s.name \o <<"/">> \o r.key]

\* get_unique_name_for_op of scope s on the current contents of its map.
get_unique_name_for_op(s, default_name) ==
    LET r == MintLoop(opMaps[s.op_names], BaseName(s, default_name),
                      BaseName(s, default_name))
    IN  [key |-> r.key, map |-> r.map, full |-> join(<<"/">>, s.name, r.key)]

----------------------------------------------------------------------------
\* Operations

\* The scope new_root_scope returns when its three allocations get the
\* heap indices g, c and m.
new_root_scope(g, c, m) ==
    [graph |-> g, name |-> <<>>, children_names |-> c,
     op_name |-> <<>>, op_names |-> m]

\* No panic has ended the program and no call is in progress.
Ready == panicked = <<>> /\ call = <<>>

\* Before the first call no scope exists and nothing is allocated.
Init ==
    /\ scopes = {}
    /\ graphs = << >>
    /\ nameSets = << >>
    /\ opMaps = << >>
    /\ subs = {}
    /\ derived = << >>
    /\ issued = << >>
    /\ views = EmptyMap
    /\ panicked = << >>
    /\ call = << >>

RECURSIVE SumLen(_, _)
SumLen(seqs, n) == IF n = 0 THEN 0 ELSE Len(seqs[n]) + SumLen(seqs, n - 1)

\* The number of get_unique_name_for_op calls made so far.
NumMints == SumLen(issued, Len(issued))

\* The actions that create a scope take the cap on the number of scopes.
\* NewRootScopeOf takes the cap on the number of roots as well.
NewRootScopeOf(cap, roots) ==
    /\ Ready
    /\ Cardinality(scopes) < cap
    /\ Len(graphs) < roots
    /\ scopes' = scopes \cup { new_root_scope(Len(graphs) + 1, Len(nameSets) + 1,
                                               Len(opMaps) + 1) }
    /\ graphs' = Append(graphs, 0)
    /\ nameSets' = Append(nameSets, {})
    /\ opMaps' = Append(opMaps, EmptyMap)
    /\ derived' = Append(derived, <<>>)
    /\ issued' = Append(issued, <<>>)
    /\ UNCHANGED <<subs, views, panicked, call>>

NewRootScope(cap) == NewRootScopeOf(cap, MaxRoots)

\* new_sub_scope with copy_names false for every name.
new_sub_scope_never_copy(s, name) ==
    LET u == uniquify(nameSets[s.children_names], name)
        new_name == IF name = <<>> THEN s.name
                    ELSE IF s.name = <<>> THEN u.name
                    ELSE s.name \o <<"/">> \o u.name
    IN  [scope |-> [graph |-> s.graph,
                    name |-> new_name,
                    children_names |-> Len(nameSets) + 1,
                    op_name |-> s.op_name,
                    op_names |-> Len(opMaps) + 1],
         copy_names |-> FALSE,
         seg |-> IF name = <<>> THEN <<>> ELSE u.name,
         set |-> IF name = <<>> THEN nameSets[s.children_names] ELSE u.set]

\* new_sub_scope with copy_names true for every name.
new_sub_scope_always_copy(s, name) ==
    LET u == uniquify(nameSets[s.children_names], name)
        new_name == IF name = <<>> THEN s.name
                    ELSE IF s.name = <<>> THEN u.name
                    ELSE s.name \o <<"/">> \o u.name
    IN  [scope |-> [graph |-> s.graph,
                    name |-> new_name,
                    children_names |-> Len(nameSets) + 1,
                    op_name |-> s.op_name,
                    op_names |-> s.op_names],
         copy_names |-> TRUE,
         seg |-> IF name = <<>> THEN <<>> ELSE u.name,
         set |-> IF name = <<>> THEN nameSets[s.children_names] ELSE u.set]

\* new_sub_scope without the arm of the match for an empty path.
new_sub_scope_no_root_arm(s, name) ==
    LET u == uniquify(nameSets[s.children_names], name)
        copy_names == (name = <<>>)
        new_name == IF name = <<>> THEN s.name
                    ELSE s.name \o <<"/">> \o u.name
    IN  [scope |-> [graph |-> s.graph,
                    name |-> new_name,
                    children_names |-> Len(nameSets) + 1,
                    op_name |-> s.op_name,
                    op_names |-> IF copy_names THEN s.op_names
                                 ELSE Len(opMaps) + 1],
         copy_names |-> copy_names,
         seg |-> IF name = <<>> THEN <<>> ELSE u.name,
         set |-> IF name = <<>> THEN nameSets[s.children_names] ELSE u.set]

\* new_sub_scope referring to the first graph allocated and not to the
\* graph of its receiver.
new_sub_scope_first_graph(s, name) ==
    LET u == uniquify(nameSets[s.children_names], name)
        copy_names == (name = <<>>)
        new_name == IF name = <<>> THEN s.name
                    ELSE IF s.name = <<>> THEN u.name
                    ELSE s.name \o <<"/">> \o u.name
    IN  [scope |-> [graph |-> 1,
                    name |-> new_name,
                    children_names |-> Len(nameSets) + 1,
                    op_name |-> s.op_name,
                    op_names |-> IF copy_names THEN s.op_names
                                 ELSE Len(opMaps) + 1],
         copy_names |-> copy_names,
         seg |-> IF name = <<>> THEN <<>> ELSE u.name,
         set |-> IF name = <<>> THEN nameSets[s.children_names] ELSE u.set]

\* new_sub_scope handing out a scope without the override.
new_sub_scope_clear_override(s, name) ==
    LET u == uniquify(nameSets[s.children_names], name)
        copy_names == (name = <<>>)
        new_name == IF name = <<>> THEN s.name
                    ELSE IF s.name = <<>> THEN u.name
                    ELSE s.name \o <<"/">> \o u.name
    IN  [scope |-> [graph |-> s.graph,
                    name |-> new_name,
                    children_names |-> Len(nameSets) + 1,
                    op_name |-> <<>>,
                    op_names |-> IF copy_names THEN s.op_names
                                 ELSE Len(opMaps) + 1],
         copy_names |-> copy_names,
         seg |-> IF name = <<>> THEN <<>> ELSE u.name,
         set |-> IF name = <<>> THEN nameSets[s.children_names] ELSE u.set]

\* new_sub_scope on scope s: the returned scope, the last path segment it
\* was given, and the contents of s's children_names set afterwards.  The
\* returned scope always gets a newly allocated children_names set, and a
\* newly allocated op_names map unless copy_names.
new_sub_scope(s, name) ==
    LET u == uniquify(nameSets[s.children_names], name)
        copy_names == (name = <<>>)
        new_name == IF name = <<>> THEN s.name
                    ELSE IF s.name = <<>> THEN u.name
                    ELSE s.name \o <<"/">> \o u.name
    IN  [scope |-> [graph |-> s.graph,
                    name |-> new_name,
                    children_names |-> Len(nameSets) + 1,
                    op_name |-> s.op_name,
                    op_names |-> IF copy_names THEN s.op_names
                                 ELSE Len(opMaps) + 1],
         copy_names |-> copy_names,
         seg |-> IF name = <<>> THEN <<>> ELSE u.name,
         set |-> IF name = <<>> THEN nameSets[s.children_names] ELSE u.set]

NewSubScope(cap, s, name) ==
    /\ Ready
    /\ Cardinality(scopes) < cap
    /\ LET r == new_sub_scope(s, name)
       IN  /\ scopes' = scopes \cup {r.scope}
           /\ nameSets' = Append([nameSets EXCEPT ![s.children_names] = r.set], {})
           /\ opMaps' = IF r.copy_names THEN opMaps ELSE Append(opMaps, EmptyMap)
           /\ subs' = subs \cup { [src |-> s, arg |-> name, ret |-> r.scope] }
           /\ derived' = Append(
                 IF name = <<>> THEN derived
                 ELSE [derived EXCEPT ![s.children_names] =
                          Append(@, [req |-> name, seg |-> r.seg])],
                 <<>>)
           /\ issued' = IF r.copy_names THEN issued ELSE Append(issued, <<>>)
    /\ UNCHANGED <<graphs, views, panicked, call>>

\* with_op_name appending the name to the override already set.
with_op_name_append(s, name) ==
    [graph |-> s.graph,
     name |-> s.name,
     children_names |-> s.children_names,
     op_name |-> s.op_name \o name,
     op_names |-> s.op_names]

\* with_op_name on scope s: the returned scope.
with_op_name(s, name) ==
    [graph |-> s.graph,
     name |-> s.name,
     children_names |-> s.children_names,
     op_name |-> name,
     op_names |-> s.op_names]

WithOpName(cap, s, name) ==
    /\ Ready
    /\ Cardinality(scopes) < cap
    /\ scopes' = scopes \cup { with_op_name(s, name) }
    /\ UNCHANGED <<graphs, nameSets, opMaps, subs, derived, issued,
                   views, panicked, call>>

\* The action takes the cap on the number of mints.
GetUniqueNameForOp(cap, s, default_name) ==
    /\ Ready
    /\ NumMints < cap
    /\ LET r == get_unique_name_for_op(s, default_name)
       IN  /\ opMaps' = [opMaps EXCEPT ![s.op_names] = r.map]
           /\ issued' = [issued EXCEPT ![s.op_names] =
                            Append(@, [base |-> BaseName(s, default_name),
                                       key |-> r.key, full |-> r.full])]
    /\ UNCHANGED <<scopes, graphs, nameSets, subs, derived,
                   views, panicked, call>>

\* RefCell::borrow on a borrow flag: a flag >= 0 counts the shared borrows
\* that are alive, -1 is the exclusive borrow.  ok FALSE is the panic.
borrow(flag) ==
    IF flag >= 0 THEN [ok |-> TRUE, flag |-> flag + 1]
    ELSE [ok |-> FALSE, flag |-> flag]

\* RefCell::borrow_mut granting the exclusive borrow beside shared ones.
borrow_mut_beside_shared(flag) ==
    IF flag >= 0 THEN [ok |-> TRUE, flag |-> -1]
    ELSE [ok |-> FALSE, flag |-> flag]

\* RefCell::borrow_mut on a borrow flag.
borrow_mut(flag) ==
    IF flag = 0 THEN [ok |-> TRUE, flag |-> -1]
    ELSE [ok |-> FALSE, flag |-> flag]

\* The views of one kind that scope s holds.
ViewCount(s, mut) == IF <<s, mut>> \in DOMAIN views THEN views[<<s, mut>>] ELSE 0

RECURSIVE SumViews(_)
SumViews(D) ==
    IF D = {} THEN 0
    ELSE LET k == CHOOSE k \in D : TRUE IN views[k] + SumViews(D \ {k})

\* The number of views alive.
NumViews == SumViews(DOMAIN views)

\* views with one more, or one fewer, view of a kind held by s.
ViewsPlus(s, mut) == MapInsert(views, <<s, mut>>, ViewCount(s, mut) + 1)
ViewsMinus(s, mut) ==
    IF views[<<s, mut>>] = 1
    THEN [k \in (DOMAIN views) \ {<<s, mut>>} |-> views[k]]
    ELSE [views EXCEPT ![<<s, mut>>] = @ - 1]

\* graph(&self): the borrow checker admits the call only while no
\* exclusive view obtained from this same scope is alive.  The action takes
\* the cap on the number of views alive, which bounds the calls that
\* return a view.
Graph(cap, s) ==
    /\ Ready
    /\ ViewCount(s, TRUE) = 0
    /\ LET r == borrow(graphs[s.graph])
       IN  IF r.ok
           THEN /\ NumViews < cap
                /\ graphs' = [graphs EXCEPT ![s.graph] = r.flag]
                /\ views' = ViewsPlus(s, FALSE)
                /\ UNCHANGED panicked
           ELSE /\ panicked' = << [scope |-> s, mut |-> FALSE] >>
                /\ UNCHANGED <<graphs, views>>
    /\ UNCHANGED <<scopes, nameSets, opMaps, subs, derived, issued, call>>

\* graph_mut(&mut self): the borrow checker admits the call only while no
\* view obtained from this same scope is alive.
GraphMut(cap, s) ==
    /\ Ready
    /\ ViewCount(s, TRUE) = 0
    /\ ViewCount(s, FALSE) = 0
    /\ LET r == borrow_mut(graphs[s.graph])
       IN  IF r.ok
           THEN /\ NumViews < cap
                /\ graphs' = [graphs EXCEPT ![s.graph] = r.flag]
                /\ views' = ViewsPlus(s, TRUE)
                /\ UNCHANGED panicked
           ELSE /\ panicked' = << [scope |-> s, mut |-> TRUE] >>
                /\ UNCHANGED <<graphs, views>>
    /\ UNCHANGED <<scopes, nameSets, opMaps, subs, derived, issued, call>>

\* The view graph() returned goes out of scope: Ref::drop.
DropRef(s) ==
    /\ Ready
    /\ ViewCount(s, FALSE) > 0
    /\ graphs' = [graphs EXCEPT ![s.graph] = @ - 1]
    /\ views' = ViewsMinus(s, FALSE)
    /\ UNCHANGED <<scopes, nameSets, opMaps, subs, derived, issued,
                   panicked, call>>

\* The view graph_mut() returned goes out of scope: RefMut::drop.
DropRefMut(s) ==
    /\ Ready
    /\ ViewCount(s, TRUE) > 0
    /\ graphs' = [graphs EXCEPT ![s.graph] = @ + 1]
    /\ views' = ViewsMinus(s, TRUE)
    /\ UNCHANGED <<scopes, nameSets, opMaps, subs, derived, issued,
                   panicked, call>>

\* One iteration of the loop of get_unique_name_for_op that leaves the map
\* and the candidate as they are when the candidate is occupied.
MintIterationNoIncrement(map, name, name_string) ==
    IF name_string \notin DOMAIN map
    THEN [done |-> TRUE, name_string |-> name_string,
          map |-> MapInsert(map, name_string, 0)]
    ELSE [done |-> FALSE, name_string |-> name_string, map |-> map]

\* One iteration of the loop of get_unique_name_for_op: the Vacant arm
\* inserts the candidate and returns, the Occupied arm increments the
\* count of the candidate and builds the next candidate from it.
MintIteration(map, name, name_string) ==
    IF name_string \notin DOMAIN map
    THEN [done |-> TRUE, name_string |-> name_string,
          map |-> MapInsert(map, name_string, 0)]
    ELSE [done |-> FALSE,
          name_string |-> Suffixed(name, map[name_string] + 1),
          map |-> [map EXCEPT ![name_string] = @ + 1]]

\* The new_sub_scope and get_unique_name_for_op calls made or begun.
NumCalls == Cardinality(subs) + NumMints + Len(call)

\* get_unique_name_for_op up to its loop.  The action takes the cap on the
\* number of calls.
BeginMint(cap, s, default_name) ==
    /\ Ready
    /\ NumCalls < cap
    /\ call' = << [op |-> "mint", scope |-> s,
                   name |-> BaseName(s, default_name),
                   name_string |-> BaseName(s, default_name),
                   start |-> opMaps[s.op_names]] >>
    /\ UNCHANGED <<scopes, graphs, nameSets, opMaps, subs, derived, issued,
                   views, panicked>>

\* One iteration of the loop of get_unique_name_for_op, and the return
\* when it was the last.
MintStep ==
    /\ call # <<>>
    /\ call[1].op = "mint"
    /\ LET c == call[1]
           m == c.scope.op_names
           r == MintIteration(opMaps[m], c.name, c.name_string)
       IN  /\ opMaps' = [opMaps EXCEPT ![m] = r.map]
           /\ IF r.done
              THEN /\ issued' = [issued EXCEPT ![m] =
                          Append(@, [base |-> c.name, key |-> r.name_string,
                                     full |-> join(<<"/">>, c.scope.name,
                                                   r.name_string)])]
                   /\ call' = <<>>
              ELSE /\ call' = << [c EXCEPT !.name_string = r.name_string] >>
                   /\ UNCHANGED issued
    /\ UNCHANGED <<scopes, graphs, nameSets, subs, derived, views, panicked>>

\* new_sub_scope up to the first insert of uniquify; i = 0 stands for the
\* name itself, i > 0 for name_i.
BeginSub(cap, s, name) ==
    /\ Ready
    /\ NumCalls < cap
    /\ call' = << [op |-> "sub", scope |-> s, name |-> name, i |-> 0] >>
    /\ UNCHANGED <<scopes, graphs, nameSets, opMaps, subs, derived, issued,
                   views, panicked>>

\* One insert of uniquify: the one on the name itself or one iteration of
\* the loop.  When the insert succeeds new_sub_scope builds the scope and
\* returns.
SubStep ==
    /\ call # <<>>
    /\ call[1].op = "sub"
    /\ LET c == call[1]
           s == c.scope
           new_name == IF c.i = 0 THEN c.name ELSE Suffixed(c.name, c.i)
       IN  IF c.name # <<>> /\ new_name \in nameSets[s.children_names]
           THEN /\ call' = << [c EXCEPT !.i = @ + 1] >>
                /\ UNCHANGED <<scopes, nameSets, opMaps, subs, derived, issued>>
           ELSE LET copy_names == (c.name = <<>>)
                    ret == [graph |-> s.graph,
                            name |-> IF c.name = <<>> THEN s.name
                                     ELSE IF s.name = <<>> THEN new_name
                                     ELSE s.name \o <<"/">> \o new_name,
                            children_names |-> Len(nameSets) + 1,
                            op_name |-> s.op_name,
                            op_names |-> IF copy_names THEN s.op_names
                                         ELSE Len(opMaps) + 1]
                IN  /\ scopes' = scopes \cup {ret}
                    /\ nameSets' = Append(
                          IF c.name = <<>> THEN nameSets
                          ELSE [nameSets EXCEPT ![s.children_names] =
                                   @ \cup {new_name}],
                          {})
                    /\ opMaps' = IF copy_names THEN opMaps
                                 ELSE Append(opMaps, EmptyMap)
                    /\ subs' = subs \cup
                          { [src |-> s, arg |-> c.name, ret |-> ret] }
                    /\ derived' = Append(
                          IF c.name = <<>> THEN derived
                          ELSE [derived EXCEPT ![s.children_names] =
                                   Append(@, [req |-> c.name, seg |-> new_name])],
                          <<>>)
                    /\ issued' = IF copy_names THEN issued
                                 ELSE Append(issued, <<>>)
                    /\ call' = <<>>
    /\ UNCHANGED <<graphs, views, panicked>>

Next ==
    \/ NewRootScope(MaxScopes)
    \/ \E s \in scopes, name \in SubNames : NewSubScope(MaxScopes, s, name)
    \/ \E s \in scopes, name \in OpNames : WithOpName(MaxScopes, s, name)
    \/ \E s \in scopes, name \in DefaultNames :
          GetUniqueNameForOp(MaxMints, s, name)

Spec == Init /\ [][Next]_vars

\* The callers that derive scopes and mint nothing.
NextScopes ==
    \/ NewRootScope(MaxTreeScopes)
    \/ \E s \in scopes, name \in SubNames : NewSubScope(MaxTreeScopes, s, name)
    \/ \E s \in scopes, name \in OpNames : WithOpName(MaxTreeScopes, s, name)

SpecScopes == Init /\ [][NextScopes]_vars

\* The callers that keep to few scopes and mint more names.
NextMints ==
    \/ NewRootScope(MaxMintScopes)
    \/ \E s \in scopes, name \in SubNames : NewSubScope(MaxMintScopes, s, name)
    \/ \E s \in scopes, name \in OpNames : WithOpName(MaxMintScopes, s, name)
    \/ \E s \in scopes, name \in DefaultNames :
          GetUniqueNameForOp(MaxManyMints, s, name)

SpecMints == Init /\ [][NextMints]_vars

\* The callers that take views of the graphs of several trees and mint
\* nothing.
NextGraph ==
    \/ NewRootScopeOf(MaxGraphScopes, MaxGraphRoots)
    \/ \E s \in scopes, name \in SubNames : NewSubScope(MaxGraphScopes, s, name)
    \/ \E s \in scopes, name \in OpNames : WithOpName(MaxGraphScopes, s, name)
    \/ \E s \in scopes : Graph(MaxViews, s)
    \/ \E s \in scopes : GraphMut(MaxViews, s)
    \/ \E s \in scopes : DropRef(s)
    \/ \E s \in scopes : DropRefMut(s)

SpecGraph == Init /\ [][NextGraph]_vars

\* The callers that derive scopes for names that may hold the separator.
NextPaths ==
    \/ NewRootScope(MaxPathScopes)
    \/ \E s \in scopes, name \in PathNames : NewSubScope(MaxPathScopes, s, name)
    \/ \E s \in scopes, name \in OpNames : WithOpName(MaxPathScopes, s, name)

SpecPaths == Init /\ [][NextPaths]_vars

\* The callers whose new_sub_scope and get_unique_name_for_op calls are
\* followed iteration by iteration.  A call that has begun goes on running:
\* its next iteration is taken whenever there is one.
NextLoops ==
    \/ NewRootScope(MaxLoopCalls + 1)
    \/ \E s \in scopes, name \in LoopNames : BeginSub(MaxLoopCalls, s, name)
    \/ SubStep
    \/ \E s \in scopes, name \in LoopNames : BeginMint(MaxLoopCalls, s, name)
    \/ MintStep

SpecLoops ==
    Init /\ [][NextLoops]_vars /\ WF_vars(SubStep) /\ WF_vars(MintStep)

\* The callers of join alone: one call is pending, on any separator and
\* parts, and Join makes it.
InitJoin ==
    /\ scopes = {}
    /\ graphs = << >>
    /\ nameSets = << >>
    /\ opMaps = << >>
    /\ subs = {}
    /\ derived = << >>
    /\ issued = << >>
    /\ views = EmptyMap
    /\ panicked = << >>
    /\ call \in { << [op |-> "join", sep |-> sep, left |-> left, right |-> right,
                       done |-> FALSE, out |-> <<>>] >> :
                    sep \in Separators, left \in JoinParts, right \in JoinParts }

Join ==
    /\ call # <<>>
    /\ call[1].op = "join"
    /\ ~call[1].done
    /\ call' = << [call[1] EXCEPT
                      !.done = TRUE,
                      !.out = join(call[1].sep, call[1].left, call[1].right)] >>
    /\ UNCHANGED <<scopes, graphs, nameSets, opMaps, subs, derived, issued,
                   views, panicked>>

NextJoin == Join

SpecJoin == InitJoin /\ [][NextJoin]_vars

----------------------------------------------------------------------------
\* Properties

\* The get_unique_name_for_op calls made so far, each as <<map, position>>.
Minted == UNION { { <<m, i>> : i \in DOMAIN issued[m] } : m \in DOMAIN issued }

\* The graph and the path of the scopes that refer to op map m.
GraphOf(m) == (CHOOSE s \in scopes : s.op_names = m).graph
PathOf(m) == (CHOOSE s \in scopes : s.op_names = m).name

\* key is name_i for some i: name, an underscore, and digits.
IsSuffixedOf(key, name) ==
    /\ Len(key) > Len(name) + 1
    /\ SubSeq(key, 1, Len(name) + 1) = name \o <<"_">>
    /\ \A p \in (Len(name) + 2)..Len(key) : \E d \in 0..9 : <<key[p]>> = Digit(d)

\* C1: no two get_unique_name_for_op calls made on scopes derived from one
\* root return the same string.
C1_GloballyUniqueNames ==
    \A c1 \in Minted, c2 \in Minted :
        (c1 # c2 /\ GraphOf(c1[1]) = GraphOf(c2[1]))
            => issued[c1[1]][c1[2]].full # issued[c2[1]][c2[2]].full

\* C2: the strings get_unique_name_for_op has returned through the scopes
\* that share one op_names map are pairwise different, whatever the default
\* names and overrides were.
C2_NoReuseInOneMap ==
    \A m \in DOMAIN issued : \A i \in DOMAIN issued[m], j \in DOMAIN issued[m] :
        i # j => issued[m][i].full # issued[m][j].full

\* A map through which b_1 was minted as a base of its own, then b twice, so
\* that the second mint of b found its candidate b_1 taken.
C2_Witness ==
    \E m \in DOMAIN issued :
        /\ Len(issued[m]) = 3
        /\ issued[m][2].base = issued[m][3].base
        /\ issued[m][1].base = Suffixed(issued[m][3].base, 1)
        /\ issued[m][3].key = Suffixed(issued[m][3].base, 2)

\* C3: two new_sub_scope calls with non-empty names on scopes that refer to
\* the same children_names set (one scope, or scopes derived from it by
\* with_op_name) return scopes with different paths.
C3_DistinctChildren ==
    \A c1 \in subs, c2 \in subs :
        (/\ c1 # c2
         /\ c1.arg # <<>> /\ c2.arg # <<>>
         /\ c1.src.children_names = c2.src.children_names)
            => c1.ret.name # c2.ret.name

\* "a_1" was requested before "a" was requested twice on one set, one of
\* the calls being made on a scope that with_op_name returned.
C3_Witness ==
    /\ \E c \in DOMAIN derived :
          /\ Len(derived[c]) = 3
          /\ derived[c][2].req = derived[c][3].req
          /\ derived[c][1].req = Suffixed(derived[c][3].req, 1)
    /\ \E c1 \in subs, c2 \in subs :
          /\ c1.src # c2.src
          /\ c1.src.children_names = c2.src.children_names
          /\ c1.arg # <<>> /\ c2.arg # <<>>

\* The segment uniquify is to return for name on set S: name when it is
\* free, else name_i for the least i >= 1 with name_i free.
ExpectedSegment(S, name) ==
    IF name \notin S THEN name
    ELSE Suffixed(name, CHOOSE i \in 1..(Cardinality(S) + 1) :
                            /\ Suffixed(name, i) \notin S
                            /\ \A j \in 1..(i - 1) : Suffixed(name, j) \in S)

\* C4: new_sub_scope(n), n non-empty, on a scope whose children_names set
\* is S returns the path of the scope extended by n if n is not in S and by
\* n_i for the least i >= 1 with n_i not in S otherwise (with a slash in
\* between when the path is non-empty), and adds exactly that segment to S;
\* so the first k calls on a set, all for n, give n, n_1, .., n_(k-1).
C4_SubScopeUniquification ==
    [][ /\ \A c \in subs' \ subs :
              c.arg # <<>> =>
                LET S == nameSets[c.src.children_names]
                    seg == ExpectedSegment(S, c.arg)
                IN  /\ seg \notin S
                    /\ nameSets'[c.src.children_names] = S \cup {seg}
                    /\ c.ret.name = IF c.src.name = <<>> THEN seg
                                    ELSE c.src.name \o <<"/">> \o seg
        /\ \A c \in DOMAIN derived' : \A k \in DOMAIN derived'[c] :
              (\A i \in 1..k : derived'[c][i].req = derived'[c][1].req)
                 => derived'[c][k].seg =
                       IF k = 1 THEN derived'[c][1].req
                       ELSE Suffixed(derived'[c][1].req, k - 1)
      ]_vars

\* Below a scope with a non-empty path, "a_1" was taken when "a" was
\* requested a second time, so that the loop went on to "a_2".
C4_Witness ==
    \E s \in scopes :
        /\ s.name # <<>>
        /\ Len(derived[s.children_names]) = 3
        /\ derived[s.children_names][1].req =
              Suffixed(derived[s.children_names][3].req, 1)
        /\ derived[s.children_names][2].req = derived[s.children_names][3].req
        /\ derived[s.children_names][3].seg =
              Suffixed(derived[s.children_names][3].req, 2)

\* C5: when the mints j..k through one map all resolve to the base b, and
\* the map held neither b nor any b_i before mint j, they return the path
\* joined with b, b_1, .., b_(k-j) in that order; with an empty path the
\* result is the bare key, without a slash.
C5_SuccessiveMints ==
    \A m \in DOMAIN issued :
        /\ DOMAIN opMaps[m] = { issued[m][i].key : i \in DOMAIN issued[m] }
        /\ \A j \in DOMAIN issued[m], k \in DOMAIN issued[m] :
              (/\ j <= k
               /\ \A i \in j..k : issued[m][i].base = issued[m][j].base
               /\ \A i \in 1..(j - 1) :
                     /\ issued[m][i].key # issued[m][j].base
                     /\ ~IsSuffixedOf(issued[m][i].key, issued[m][j].base))
                 => /\ issued[m][k].key =
                          IF k = j THEN issued[m][j].base
                          ELSE Suffixed(issued[m][j].base, k - j)
                    /\ \A s \in scopes :
                          s.op_names = m =>
                             /\ issued[m][k].full =
                                   join(<<"/">>, s.name, issued[m][k].key)
                             /\ s.name = <<>> =>
                                   issued[m][k].full = issued[m][k].key

\* Three mints of one non-empty base through the map of a sub-scope.
C5_Witness ==
    \E s \in scopes :
        /\ s.name # <<>>
        /\ Len(issued[s.op_names]) = 3
        /\ issued[s.op_names][1].base # <<>>
        /\ issued[s.op_names][2].base = issued[s.op_names][1].base
        /\ issued[s.op_names][3].base = issued[s.op_names][1].base
        /\ issued[s.op_names][3].full =
              s.name \o <<"/">> \o Suffixed(issued[s.op_names][1].base, 2)

\* C6: through a scope with a non-empty op_name, get_unique_name_for_op
\* returns the same string and makes the same change to the map for every
\* default name, the key being the override or the override suffixed;
\* through a scope with an empty op_name the key is the default name or the
\* default name suffixed.
C6_OverrideSuppressesDefault ==
    \A s \in scopes : \A d \in DefaultNames :
        LET r == get_unique_name_for_op(s, d)
        IN  IF s.op_name # <<>>
            THEN /\ r = get_unique_name_for_op(s, <<>>)
                 /\ r.key = s.op_name \/ IsSuffixedOf(r.key, s.op_name)
            ELSE r.key = d \/ IsSuffixedOf(r.key, d)

\* Two mints were made through a scope whose override "b" no caller passes
\* as a default name, the second returning the suffixed override.
C6_Witness ==
    \E s \in scopes :
        /\ s.op_name # <<>>
        /\ s.op_name \notin DefaultNames
        /\ Len(issued[s.op_names]) >= 2
        /\ issued[s.op_names][1].key = s.op_name
        /\ issued[s.op_names][2].key = Suffixed(s.op_name, 1)

\* C7: the scope t that s.new_sub_scope("") returns refers to the
\* children_names set of s, so that a non-empty name derived through s and
\* the same name derived through t (in either order) give different paths.
C7_EmptySubScopeSharesSiblings ==
    \A c \in subs :
        c.arg = <<>> =>
            /\ c.ret.children_names = c.src.children_names
            /\ \A c1 \in subs, c2 \in subs :
                  (/\ c1.src = c.src /\ c2.src = c.ret
                   /\ c1.arg # <<>> /\ c2.arg = c1.arg)
                     => c1.ret.name # c2.ret.name

\* C8: s.new_sub_scope("") returns a scope with the path of s that refers
\* to the op_names map of s, and the call changes the contents of no
\* existing set or map; from then on a mint through either scope gives what
\* a mint through the other would give.
C8_EmptySubScopeSharesOpNames ==
    [][ /\ \A c \in subs' \ subs :
              c.arg = <<>> =>
                /\ c.ret.name = c.src.name
                /\ c.ret.op_names = c.src.op_names
                /\ opMaps' = opMaps
                /\ \A i \in DOMAIN nameSets : nameSets'[i] = nameSets[i]
        /\ \A c \in subs' :
              c.arg = <<>> =>
                \A d \in DefaultNames :
                    get_unique_name_for_op(c.ret, d)' =
                       get_unique_name_for_op(c.src, d)'
      ]_vars

\* Two mints were made through the map that a sub-scope and the scope
\* new_sub_scope("") returned for it share, the second one suffixed.
C8_Witness ==
    \E c \in subs :
        /\ c.arg = <<>>
        /\ c.src.name # <<>>
        /\ Len(issued[c.ret.op_names]) = 2
        /\ issued[c.ret.op_names][2].key =
              Suffixed(issued[c.ret.op_names][1].key, 1)

\* C9: the scope new_sub_scope(n) returns for a non-empty n refers to a
\* newly allocated empty children_names set and a newly allocated empty
\* op_names map that no existing scope refers to; its first new_sub_scope(m)
\* gets the raw segment m and its first mint the path joined with the bare
\* base.  A step changes the contents of no set other than the one the
\* scope derived from refers to, and of no map other than the one minted
\* through.
C9_FreshNamespace ==
    [][ /\ \A c \in subs' \ subs :
              c.arg # <<>> =>
                /\ c.ret.children_names \notin DOMAIN nameSets
                /\ c.ret.op_names \notin DOMAIN opMaps
                /\ \A s \in scopes :
                      /\ s.children_names # c.ret.children_names
                      /\ s.op_names # c.ret.op_names
                /\ nameSets'[c.ret.children_names] = {}
                /\ DOMAIN opMaps'[c.ret.op_names] = {}
                /\ \A m \in SubNames \ {<<>>} :
                      new_sub_scope(c.ret, m).seg' = m
                /\ \A b \in DefaultNames :
                      get_unique_name_for_op(c.ret, b).full' =
                         join(<<"/">>, c.ret.name, BaseName(c.ret, b))
        /\ \A i \in DOMAIN nameSets :
              nameSets'[i] # nameSets[i] =>
                 \E c \in subs' \ subs : c.src.children_names = i
        /\ \A m \in DOMAIN opMaps :
              opMaps'[m] # opMaps[m] =>
                 /\ issued'[m] # issued[m]
                 /\ \A m2 \in DOMAIN opMaps \ {m} : opMaps'[m2] = opMaps[m2]
                 /\ nameSets' = nameSets
      ]_vars

\* A base was minted through a scope, and the first mint of the same base
\* through a sub-scope it returned for a non-empty name gave path/base.
C9_Witness ==
    \E c \in subs :
        /\ c.arg # <<>>
        /\ Len(issued[c.ret.op_names]) >= 1
        /\ issued[c.ret.op_names][1].base # <<>>
        /\ issued[c.ret.op_names][1].base \in DOMAIN opMaps[c.src.op_names]
        /\ issued[c.ret.op_names][1].full =
              c.ret.name \o <<"/">> \o issued[c.ret.op_names][1].base

\* C10: a with_op_name step adds a scope that has the path, graph,
\* children_names set and op_names map of an existing scope and the
\* argument as op_name; it changes the contents of no set and no map, and
\* the results of new_sub_scope and get_unique_name_for_op on every existing
\* scope are what they were before it.
C10_WithOpNameIsPure ==
    [][ (scopes' # scopes /\ subs' = subs /\ graphs' = graphs) =>
          /\ \A n \in scopes' \ scopes :
                \E s \in scopes, x \in OpNames :
                    n = [graph |-> s.graph, name |-> s.name,
                         children_names |-> s.children_names,
                         op_name |-> x, op_names |-> s.op_names]
          /\ nameSets' = nameSets
          /\ opMaps' = opMaps
          /\ \A s \in scopes :
                /\ \A name \in SubNames :
                      new_sub_scope(s, name)' = new_sub_scope(s, name)
                /\ \A d \in DefaultNames :
                      get_unique_name_for_op(s, d)' = get_unique_name_for_op(s, d)
      ]_vars

\* Scopes with the overrides "a" and "b" exist on one path and one pair of
\* registries, after a sub-scope was derived and a name minted there.
C10_Witness ==
    \E s1 \in scopes, s2 \in scopes :
        /\ s1.op_name # <<>> /\ s2.op_name # <<>>
        /\ s1.op_name # s2.op_name
        /\ s1.name = s2.name
        /\ s1.children_names = s2.children_names
        /\ s1.op_names = s2.op_names
        /\ Len(issued[s1.op_names]) >= 1

\* C11: the scope new_sub_scope returns, for an empty or a non-empty name,
\* has the op_name of the scope it was called on, and a mint through it
\* builds its key from that override and not from the default name.
C11_OverrideSurvivesSubScope ==
    \A c \in subs :
        /\ c.ret.op_name = c.src.op_name
        /\ c.src.op_name # <<>> =>
              \A d \in DefaultNames :
                  LET r == get_unique_name_for_op(c.ret, d)
                  IN  r.key = c.src.op_name \/ IsSuffixedOf(r.key, c.src.op_name)

\* Through a sub-scope derived for a non-empty name from a scope with the
\* override "b", which no caller passes as default, "b" was minted.
C11_Witness ==
    \E c \in subs :
        /\ c.arg # <<>>
        /\ c.src.op_name # <<>>
        /\ c.src.op_name \notin DefaultNames
        /\ Len(issued[c.ret.op_names]) >= 1
        /\ issued[c.ret.op_names][1].full =
              c.ret.name \o <<"/">> \o c.src.op_name

\* The read-only and the exclusive views alive on graph g.
Shared(g) == SumViews({ k \in DOMAIN views : k[1].graph = g /\ ~k[2] })
Exclusive(g) == SumViews({ k \in DOMAIN views : k[1].graph = g /\ k[2] })

\* C12: on every graph either no exclusive view is alive, or exactly one
\* exclusive view and no read-only view; a graph() or graph_mut() call that
\* would break this panics and hands out no view, and a call panics only
\* then, so that read-only views are handed out beside read-only views.
C12_GraphViewExclusivity ==
    [][ /\ \A g \in DOMAIN graphs' :
              \/ Exclusive(g)' = 0
              \/ Exclusive(g)' = 1 /\ Shared(g)' = 0
        /\ panicked' # panicked =>
              /\ views' = views
              /\ graphs' = graphs
              /\ LET p == panicked'[1]
                 IN  IF p.mut
                     THEN Exclusive(p.scope.graph) + Shared(p.scope.graph) > 0
                     ELSE Exclusive(p.scope.graph) = 1
      ]_vars

\* A graph_mut() call panicked while two read-only views of its graph were
\* alive, and the views are still alive.
C12_Witness ==
    /\ panicked # <<>>
    /\ panicked[1].mut
    /\ Shared(panicked[1].scope.graph) = 2
    /\ Exclusive(panicked[1].scope.graph) = 0

\* p has no two consecutive slashes and neither begins nor ends with one.
WellFormed(p) ==
    \/ p = <<>>
    \/ /\ p[1] # "/"
       /\ p[Len(p)] # "/"
       /\ \A i \in 1..(Len(p) - 1) : ~(p[i] = "/" /\ p[i + 1] = "/")

\* Each new_sub_scope call returned the path of its receiver for the empty
\* name, and otherwise that path joined with a uniquified form of the name.
SlashJoined ==
    /\ \A s \in scopes : s.name # <<>> => \E c \in subs : c.ret.name = s.name
    /\ \A c \in subs :
          IF c.arg = <<>> THEN c.ret.name = c.src.name
          ELSE \E seg \in nameSets[c.src.children_names] :
                  /\ seg = c.arg \/ IsSuffixedOf(seg, c.arg)
                  /\ c.ret.name = join(<<"/">>, c.src.name, seg)

\* The names requested by the new_sub_scope calls on the way from the root
\* to scope s.
RECURSIVE Requested(_)
Requested(s) ==
    LET cs == { c \in subs : c.ret.children_names = s.children_names }
    IN  IF cs = {} THEN {}
        ELSE LET c == CHOOSE c \in cs : TRUE
             IN  {c.arg} \cup Requested(c.src)

SlashFree(name) == \A i \in DOMAIN name : name[i] # "/"

\* C13 as stated: for any requested names, the path of every scope is the
\* slash-join of uniquified sub-scope names, has no two consecutive slashes
\* and neither begins nor ends with a slash.
C13_PathWellFormed ==
    /\ SlashJoined
    /\ \A s \in scopes : WellFormed(s.name)

\* C13, amended: the path of every scope is the slash-join of uniquified
\* sub-scope names, and when no name requested on the way from the root to
\* the scope holds a slash, the path has no two consecutive slashes and
\* neither begins nor ends with a slash.
C13_PathWellFormedSlashFree ==
    /\ SlashJoined
    /\ \A s \in scopes :
          (\A n \in Requested(s) : SlashFree(n)) => WellFormed(s.name)

\* A scope two levels below the root whose requested names hold no slash
\* and whose last segment was uniquified.
C13_Witness ==
    \E s \in scopes :
        /\ Requested(s) = { <<"a">> }
        /\ s.name = <<"a", "/", "a", "_", "1">>

\* The tree of scope s, named by the children_names set of its root.
RECURSIVE TreeOf(_)
TreeOf(s) ==
    LET cs == { c \in subs : c.ret.children_names = s.children_names }
    IN  IF cs = {} THEN s.children_names
        ELSE TreeOf((CHOOSE c \in cs : TRUE).src)

\* C14: the scopes of one tree refer to one graph and the scopes of
\* different trees to different graphs; there are as many graphs as roots;
\* new_root_scope allocates one graph, for the scope it returns, and
\* new_sub_scope and with_op_name allocate none and hand on the graph of
\* their receiver.
C14_OneGraphPerTree ==
    [][ /\ \A s \in scopes', u \in scopes' :
              (TreeOf(s)' = TreeOf(u)') <=> (s.graph = u.graph)
        /\ \A s \in scopes' : s.graph \in DOMAIN graphs'
        /\ Len(graphs') = Cardinality({ TreeOf(s)' : s \in scopes' })
        /\ Len(graphs') # Len(graphs) =>
              /\ Len(graphs') = Len(graphs) + 1
              /\ subs' = subs
              /\ \A n \in scopes' \ scopes :
                    n.graph = Len(graphs') /\ TreeOf(n)' = n.children_names
        /\ \A c \in subs' \ subs :
              c.ret.graph = c.src.graph /\ Len(graphs') = Len(graphs)
        /\ (scopes' # scopes /\ subs' = subs /\ Len(graphs') = Len(graphs)) =>
              \A n \in scopes' \ scopes : \E s \in scopes :
                  n.graph = s.graph /\ n.children_names = s.children_names
      ]_vars

\* Two trees, the second with a sub-scope derived from a scope that has an
\* override.
C14_Witness ==
    /\ Len(graphs) = 2
    /\ \E s \in scopes : s.graph = 1
    /\ \E c \in subs : c.arg # <<>> /\ c.ret.graph = 2

\* C15: a call of join returns right when left is empty, left when right is
\* empty and left, sep, right concatenated otherwise; it changes no scope
\* and no registry, it does not panic, and it can be made on every
\* separator and parts.
C15_Join ==
    [][ /\ (call # <<>> /\ call[1].op = "join" /\ ~call[1].done) => ENABLED Join
        /\ (call' # call /\ call' # <<>> /\ call'[1].op = "join") =>
              LET c == call'[1]
              IN  /\ c.done
                  /\ c.sep = call[1].sep
                  /\ c.left = call[1].left
                  /\ c.right = call[1].right
                  /\ c.left = <<>> => c.out = c.right
                  /\ c.right = <<>> => c.out = c.left
                  /\ (c.left # <<>> /\ c.right # <<>>) =>
                        c.out = c.left \o c.sep \o c.right
                  /\ UNCHANGED <<scopes, graphs, nameSets, opMaps, subs,
                                 derived, issued, views, panicked>>
      ]_vars

\* join returned its right part for an empty left part and a separator that
\* is not empty.
C15_Witness ==
    /\ call # <<>>
    /\ call[1].op = "join"
    /\ call[1].done
    /\ call[1].sep = <<"/">>
    /\ call[1].left = <<>>
    /\ call[1].right = <<"a", "/", "b">>
    /\ call[1].out = <<"a", "/", "b">>

\* The get_unique_name_for_op call this step makes through map m, if any:
\* the entry it appends to issued[m].
MintedNow(m) == issued'[m][Len(issued'[m])]

\* C16 as stated: a mint whose base b is a key with count n sets the count
\* of b to n+1, finds b_(n+1) not to be a key, inserts it with count 0,
\* returns the path joined with b_(n+1), and changes no other count.
C16_MintOnPresentBase ==
    [][ \A m \in DOMAIN issued :
            (issued'[m] # issued[m] /\ MintedNow(m).base \in DOMAIN opMaps[m]) =>
                LET b == MintedNow(m).base
                    n == opMaps[m][b]
                IN  /\ Suffixed(b, n + 1) \notin DOMAIN opMaps[m]
                    /\ opMaps'[m] = MapInsert([opMaps[m] EXCEPT ![b] = n + 1],
                                              Suffixed(b, n + 1), 0)
                    /\ MintedNow(m).full =
                          join(<<"/">>, PathOf(m), Suffixed(b, n + 1))
      ]_vars

\* C16, amended: a mint whose base b is a key with count n sets the count of
\* b to n+1.  When b_(n+1) is not a key, the mint inserts it with count 0,
\* returns the path joined with b_(n+1), and changes no other count.  When
\* b_(n+1) is a key, the mint raises its count, inserts with count 0 a key
\* b_k that was not a key, and returns the path joined with b_k.
C16_MintOnPresentBaseFreeCandidate ==
    [][ \A m \in DOMAIN issued :
            (issued'[m] # issued[m] /\ MintedNow(m).base \in DOMAIN opMaps[m]) =>
                LET b == MintedNow(m).base
                    n == opMaps[m][b]
                    cand == Suffixed(b, n + 1)
                    key == MintedNow(m).key
                IN  /\ opMaps'[m][b] = n + 1
                    /\ MintedNow(m).full = join(<<"/">>, PathOf(m), key)
                    /\ IF cand \notin DOMAIN opMaps[m]
                       THEN /\ key = cand
                            /\ opMaps'[m] =
                                  MapInsert([opMaps[m] EXCEPT ![b] = n + 1],
                                            cand, 0)
                       ELSE /\ opMaps'[m][cand] > opMaps[m][cand]
                            /\ IsSuffixedOf(key, b)
                            /\ key \notin DOMAIN opMaps[m]
                            /\ opMaps'[m][key] = 0
                            /\ DOMAIN opMaps'[m] = DOMAIN opMaps[m] \cup {key}
      ]_vars

\* A map through which b was minted as a base three times: the third mint
\* found b with count 1 and its candidate b_2 not to be a key.
C16_Witness ==
    \E m \in DOMAIN issued :
        /\ Len(issued[m]) = 3
        /\ \A i \in 1..3 : issued[m][i].base = issued[m][1].base
        /\ issued[m][3].key = Suffixed(issued[m][1].base, 2)
        /\ opMaps[m][issued[m][1].base] = 2

\* A call that was followed iteration by iteration returns what the call
\* made in one step returns.
StepwiseAgrees ==
    [][ /\ (call # <<>> /\ call[1].op = "mint" /\ call' = <<>>) =>
              LET c == call[1]
                  m == c.scope.op_names
                  r == MintLoop(c.start, c.name, c.name)
              IN  /\ opMaps'[m] = r.map
                  /\ MintedNow(m).key = r.key
        /\ (call # <<>> /\ call[1].op = "sub" /\ call' = <<>>) =>
              LET c == call[1]
                  r == new_sub_scope(c.scope, c.name)
              IN  /\ subs' = subs \cup
                        { [src |-> c.scope, arg |-> c.name, ret |-> r.scope] }
                  /\ nameSets'[c.scope.children_names] = r.set
      ]_vars

\* C17: every new_sub_scope call and every get_unique_name_for_op call that
\* has begun returns, also on a map in which suffixed names were issued as
\* bases of their own.
C17_LoopsTerminate == (call # <<>>) ~> (call = <<>>)

\* A mint of "a" in its loop: its candidate "a_1" had been issued as a base,
\* was found occupied, and the next candidate, built from the count of
\* "a_1", is "a_1" again.
C17_Witness ==
    /\ call # <<>>
    /\ call[1].op = "mint"
    /\ call[1].name = <<"a">>
    /\ call[1].name_string = <<"a", "_", "1">>
    /\ <<"a", "_", "1">> \in DOMAIN opMaps[call[1].scope.op_names]
    /\ opMaps[call[1].scope.op_names][<<"a", "_", "1">>] = 1

\* C18: no step takes a scope away or changes one, removes an entry of a
\* registry or lowers a count; a new_sub_scope call changes no op map and no
\* name set but the one of its receiver, to which it adds exactly one
\* element when the name is not empty; a get_unique_name_for_op call changes
\* no name set and no op map but the one of its receiver.
C18_OwnRegistryOnly ==
    [][ /\ scopes \subseteq scopes'
        /\ \A i \in DOMAIN nameSets :
              i \in DOMAIN nameSets' /\ nameSets[i] \subseteq nameSets'[i]
        /\ \A m \in DOMAIN opMaps :
              /\ m \in DOMAIN opMaps'
              /\ \A k \in DOMAIN opMaps[m] :
                    k \in DOMAIN opMaps'[m] /\ opMaps'[m][k] >= opMaps[m][k]
        /\ \A c \in subs' \ subs :
              /\ \A m \in DOMAIN opMaps : opMaps'[m] = opMaps[m]
              /\ \A i \in DOMAIN nameSets :
                    i # c.src.children_names => nameSets'[i] = nameSets[i]
              /\ Cardinality(nameSets'[c.src.children_names]
                                \ nameSets[c.src.children_names])
                    = IF c.arg = <<>> THEN 0 ELSE 1
        /\ \A m \in DOMAIN issued :
              issued'[m] # issued[m] =>
                  /\ nameSets' = nameSets
                  /\ scopes' = scopes
                  /\ \A o \in DOMAIN opMaps : o # m => opMaps'[o] = opMaps[o]
      ]_vars

\* A name set that holds a name and its suffixed form beside an op map in
\* which a count was raised, with other sets and maps allocated.
C18_Witness ==
    /\ \E i \in DOMAIN nameSets :
          { <<"a">>, <<"a", "_", "1">> } \subseteq nameSets[i]
    /\ \E m \in DOMAIN opMaps : \E k \in DOMAIN opMaps[m] : opMaps[m][k] = 1
    /\ Len(opMaps) >= 3

\* C19: the scopes that refer to one op map have one path, and every name
\* returned through the map is that path joined with the key.
C19_OneMapOnePath ==
    /\ \A s \in scopes, u \in scopes :
          s.op_names = u.op_names => s.name = u.name
    /\ \A m \in DOMAIN issued : \A i \in DOMAIN issued[m] :
          \A s \in scopes :
              s.op_names = m =>
                  issued[m][i].full = join(<<"/">>, s.name, issued[m][i].key)

\* Below the root, a scope and its sub-scope for the empty name share an op
\* map through which a name was minted.
C19_Witness ==
    \E c \in subs :
        /\ c.arg = <<>>
        /\ c.src.name # <<>>
        /\ c.ret.op_names = c.src.op_names
        /\ c.ret # c.src
        /\ Len(issued[c.ret.op_names]) >= 1

\* C20: the keys of each op map are the keys of the names returned through
\* it; a mint adds one key, the one it returns, with count 0; a count
\* changes only in a mint, through the map of the mint, on a key that was
\* there before and is the base or a suffixed form of it.
C20_KeysAreReturnedBases ==
    [][ /\ \A m \in DOMAIN opMaps' :
              DOMAIN opMaps'[m] = { issued'[m][i].key : i \in DOMAIN issued'[m] }
        /\ \A m \in DOMAIN issued :
              IF issued'[m] # issued[m]
              THEN /\ DOMAIN opMaps'[m] \ DOMAIN opMaps[m] = { MintedNow(m).key }
                   /\ opMaps'[m][MintedNow(m).key] = 0
                   /\ MintedNow(m).full =
                         join(<<"/">>, PathOf(m), MintedNow(m).key)
                   /\ \A k \in DOMAIN opMaps[m] :
                         opMaps'[m][k] # opMaps[m][k] =>
                             \/ k = MintedNow(m).base
                             \/ IsSuffixedOf(k, MintedNow(m).base)
              ELSE opMaps'[m] = opMaps[m]
      ]_vars

\* A map with three keys, all returned, in which the mint of a base raised
\* the count of a suffixed key by two.
C20_Witness ==
    \E m \in DOMAIN opMaps :
        /\ Cardinality(DOMAIN opMaps[m]) = 3
        /\ Len(issued[m]) = 3
        /\ \E k \in DOMAIN opMaps[m] :
              /\ opMaps[m][k] = 2
              /\ k # issued[m][3].base
              /\ IsSuffixedOf(k, issued[m][3].base)
====
